---- MODULE Spec2Model ----
(***************************************************************************)
(* Magic mount of ksud (userspace/ksud/src/magic_mount.rs).                *)
(*                                                                         *)
(* The filesystem namespace is one tree value `fs`: what a path lookup     *)
(* shows.  A path is a sequence of names.  The run of magic_mount() is a   *)
(* state machine: the Module-Tree Builder, the scratch tmpfs mount, the    *)
(* propagation change, then do_magic_mount one filesystem primitive per    *)
(* step, the detaching unmount and the return.                             *)
(***************************************************************************)
EXTENDS Integers, Sequences, FiniteSets, TLC

VARIABLES
    fs0,        \* the namespace before magic_mount() was called
    fs,         \* the namespace now
    order,      \* the order read_dir and HashMap iteration happen to use
    pc,         \* position inside magic_mount()
    root,       \* Option<Node> returned by collect_module_files()
    step,       \* primitives do_magic_mount has issued so far
    ops,        \* log of the primitives issued, oldest first
    orch,       \* Option<Result> of do_magic_mount
    umountOk,   \* Option<bool>: outcome of unmount(tmp_dir, DETACH)
    faults,     \* primitives that failed for a reason outside the namespace
    result,     \* Option<Result> returned by magic_mount()
    first       \* Option<[fs, result]>: how an earlier call of magic_mount() ended

vars == <<fs0, fs, order, pc, root, step, ops, orch, umountOk, faults, result, first>>

-----------------------------------------------------------------------------
(* Bounds and constants of crate::defs                                      *)

\* symlinks followed in one path lookup before the lookup fails (ELOOP)
MaxSymlinks == 3
\* entries of its system directory a module overlays at most
MaxModuleEntries == 2

MODULE_DIR == <<"data", "adb", "modules">>
TEMP_DIR == <<"debug_ramdisk">>
SKIP_MOUNT_FILE_NAME == "skip_mount"
KSU_MOUNT_SOURCE == "KSU"

None == <<>>
Some(x) == <<x>>

\* every name of the universe, in the one order directory listings are taken
NameOrder ==
    <<"system", "vendor", "system_ext", "product", "odm", "data", "adb",
      "modules", "debug_ramdisk", "m1", "m2", "disable", "skip_mount",
      ".replace", "xbin", "sh", "su", "lib", "so", "ln", "lnd", "new">>

RECURSIVE Reverse(_)
Reverse(s) == IF s = <<>> THEN <<>> ELSE Append(Reverse(Tail(s)), Head(s))

\* the entries of a directory listing / of a HashMap, in iteration order
Enumerate(S) ==
    LET fwd == SelectSeq(NameOrder, LAMBDA n : n \in S)
    IN  IF order = "fwd" THEN fwd ELSE Reverse(fwd)

-----------------------------------------------------------------------------
(* Filesystem entries                                                       *)

Meta(mode, uid, gid, con) == [mode |-> mode, uid |-> uid, gid |-> gid, con |-> con]

\* what mkdir / open(O_CREAT) / symlink give a new entry made by ksud (root)
NewDirMeta == Meta(755, 0, 0, "tmpfs")
NewFileMeta == Meta(644, 0, 0, "tmpfs")
NewLinkMeta == Meta(777, 0, 0, "tmpfs")

File(data, meta) ==
    [kind |-> "file", data |-> data, target |-> <<>>, ch |-> <<>>, meta |-> meta, mnt |-> FALSE]
Dir(ch, meta) ==
    [kind |-> "dir", data |-> "", target |-> <<>>, ch |-> ch, meta |-> meta, mnt |-> FALSE]
Link(target, meta) ==
    [kind |-> "link", data |-> "", target |-> target, ch |-> <<>>, meta |-> meta, mnt |-> FALSE]
\* a device node, pipe or socket
Other(meta) ==
    [kind |-> "other", data |-> "", target |-> <<>>, ch |-> <<>>, meta |-> meta, mnt |-> FALSE]

Front(p) == SubSeq(p, 1, Len(p) - 1)
Last(p) == p[Len(p)]

\* the entry at a path that holds no symlink before its last name
RECURSIVE Get(_, _)
Get(e, p) == IF p = <<>> THEN e ELSE Get(e.ch[Head(p)], Tail(p))

\* the tree with the entry at path p (whose parent exists) set to new
RECURSIVE Put(_, _, _)
Put(e, p, new) ==
    IF p = <<>> THEN new
    ELSE IF Len(p) = 1
         THEN [e EXCEPT !.ch = (Head(p) :> new) @@ e.ch]
         ELSE [e EXCEPT !.ch = (Head(p) :> Put(e.ch[Head(p)], Tail(p), new)) @@ e.ch]

\* Path lookup as the kernel does it: the canonical path of `rest` under the
\* canonical directory `cur`, or None.  A symlink in the middle is always
\* followed, the last name only when `follow`.
RECURSIVE Walk(_, _, _, _, _)
Walk(r, cur, rest, follow, fuel) ==
    IF rest = <<>> THEN Some(cur)
    ELSE LET d == Get(r, cur)
             n == Head(rest)
         IN  IF d.kind # "dir" \/ n \notin DOMAIN d.ch THEN None
             ELSE LET c == d.ch[n]
                  IN  IF c.kind = "link" /\ (follow \/ Len(rest) > 1)
                      THEN IF fuel = 0 THEN None
                           ELSE Walk(r, <<>>, c.target \o Tail(rest), follow, fuel - 1)
                      ELSE Walk(r, Append(cur, n), Tail(rest), follow, fuel)

RealPath(r, p) == Walk(r, <<>>, p, TRUE, MaxSymlinks)
LRealPath(r, p) == Walk(r, <<>>, p, FALSE, MaxSymlinks)

\* Path::exists, Path::metadata, Path::is_dir follow symlinks
Exists(r, p) == RealPath(r, p) # None
Metadata(r, p) == Get(r, RealPath(r, p)[1])
IsDir(r, p) == Exists(r, p) /\ Metadata(r, p).kind = "dir"
\* Path::is_symlink, DirEntry::file_type, lgetfilecon do not
LExists(r, p) == LRealPath(r, p) # None
SymlinkMetadata(r, p) == Get(r, LRealPath(r, p)[1])
IsSymlink(r, p) == LExists(r, p) /\ SymlinkMetadata(r, p).kind = "link"

\* where a new entry named by p is made: the canonical parent plus the name
NewPath(r, p) ==
    IF p = <<>> \/ ~IsDir(r, Front(p)) THEN None
    ELSE Some(Append(RealPath(r, Front(p))[1], Last(p)))

\* Path::join: joining the empty name of the root node adds nothing
Join(p, name) == IF name = "" THEN p ELSE Append(p, name)

-----------------------------------------------------------------------------
(* Module-Tree Builder                                                      *)

\* NodeFileType::from_file_type: Option<NodeFileType>
from_file_type(kind) ==
    IF kind = "file" THEN Some("RegularFile")
    ELSE IF kind = "dir" THEN Some("Directory")
    ELSE IF kind = "link" THEN Some("Symlink")
    ELSE None

\* Node::new_root giving a node of kind RegularFile
new_root_file(name) ==
    [name |-> name, file_type |-> "RegularFile", children |-> <<>>,
     module_path |-> None, replace |-> FALSE]

\* Node::new_root
new_root(name) ==
    [name |-> name, file_type |-> "Directory", children |-> <<>>,
     module_path |-> None, replace |-> FALSE]

\* Node::new_module: Option<Node>
new_module(name, kind, module_path) ==
    IF from_file_type(kind) = None THEN None
    ELSE Some([name |-> name, file_type |-> from_file_type(kind)[1], children |-> <<>>,
               module_path |-> Some(module_path), replace |-> FALSE])

\* HashMap::remove
Remove(f, k) == [x \in DOMAIN f \ {k} |-> f[x]]

\* HashMap entry(name) with the later module taking an occupied entry over,
\* unless both are directories
EntryNode_later(self, name, kind, module_path) ==
    IF name \in DOMAIN self.children /\ self.children[name].file_type = "Directory" /\ kind = "dir"
    THEN Some(self.children[name])
    ELSE new_module(name, kind, module_path)

\* HashMap entry(name): the occupied entry is kept, a vacant one takes new_module
EntryNode(self, name, kind, module_path) ==
    IF name \in DOMAIN self.children THEN Some(self.children[name])
    ELSE new_module(name, kind, module_path)

\* Node::collect_module_files(self, module_dir): [ok, node, has_file].  ok is
\* FALSE where a `?` returns the error (read_dir of what is no directory).
RECURSIVE Node_collect_module_files(_, _, _), collect_entries(_, _, _, _, _)
Node_collect_module_files(r, self, dir) ==
    IF ~IsDir(r, dir) THEN [ok |-> FALSE, node |-> self, has_file |-> FALSE]
    ELSE collect_entries(r, self, dir, Enumerate(DOMAIN Metadata(r, dir).ch), FALSE)

\* the body of the for loop over dir.read_dir(), for the entries `names` left
collect_entries(r, self, dir, names, has_file) ==
    IF names = <<>> THEN [ok |-> TRUE, node |-> self, has_file |-> has_file]
    ELSE LET name == Head(names)
             kind == Metadata(r, dir).ch[name].kind
             got == EntryNode(self, name, kind, Append(dir, name))
         IN  IF name = ".replace"
             THEN collect_entries(r, [self EXCEPT !.replace = TRUE], dir, Tail(names), TRUE)
             ELSE IF got = None
             THEN collect_entries(r, self, dir, Tail(names), has_file)
             ELSE IF got[1].file_type = "Directory"
             THEN LET sub == Node_collect_module_files(r, got[1], Append(dir, got[1].name))
                      next == [self EXCEPT !.children = (name :> sub.node) @@ @]
                  IN  IF ~sub.ok THEN [ok |-> FALSE, node |-> next, has_file |-> has_file]
                      ELSE collect_entries(r, next, dir, Tail(names), has_file \/ sub.has_file)
             ELSE collect_entries(r, [self EXCEPT !.children = (name :> got[1]) @@ @],
                                  dir, Tail(names), TRUE)

\* the loop of collect_module_files over the entries of MODULE_DIR
RECURSIVE collect_modules(_, _, _, _)
collect_modules(r, system, names, has_file) ==
    IF names = <<>> THEN [ok |-> TRUE, node |-> system, has_file |-> has_file]
    ELSE LET entry == Append(MODULE_DIR, Head(names))
             mod_system == Append(entry, "system")
         IN  IF \/ SymlinkMetadata(r, entry).kind # "dir"
                \/ Exists(r, Append(entry, "disable"))
                \/ Exists(r, Append(entry, SKIP_MOUNT_FILE_NAME))
                \/ ~IsDir(r, mod_system)
             THEN collect_modules(r, system, Tail(names), has_file)
             ELSE LET sub == Node_collect_module_files(r, system, mod_system)
                  IN  IF ~sub.ok THEN [ok |-> FALSE, node |-> sub.node, has_file |-> has_file]
                      ELSE collect_modules(r, sub.node, Tail(names), has_file \/ sub.has_file)

Partitions == <<"vendor", "system_ext", "product", "odm">>

\* the partition loop moving nothing
reparent_never(r, rootn, system, parts) == [root |-> rootn, system |-> system]

\* the partition loop: [root, system] after the children named in parts moved
RECURSIVE reparent(_, _, _, _)
reparent(r, rootn, system, parts) ==
    IF parts = <<>> THEN [root |-> rootn, system |-> system]
    ELSE LET partition == Head(parts)
         IN  IF /\ IsDir(r, <<partition>>)
                /\ IsSymlink(r, <<"system", partition>>)
                /\ partition \in DOMAIN system.children
             THEN reparent(r,
                           [rootn EXCEPT !.children = (partition :> system.children[partition]) @@ @],
                           [system EXCEPT !.children = Remove(@, partition)],
                           Tail(parts))
             ELSE reparent(r, rootn, system, Tail(parts))

\* root.children.insert("system", system)
insert_system(moved) ==
    [moved.root EXCEPT !.children = ("system" :> moved.system) @@ @]

\* the end of collect_module_files() without the has_file test: Some(root) always
collected_always(r, built) ==
    IF ~built.ok THEN [ok |-> FALSE, root |-> None]
    ELSE [ok |-> TRUE,
          root |-> Some(insert_system(reparent(r, new_root(""), built.node, Partitions)))]

\* the end of collect_module_files(), built being what the module loop gave
collected(r, built) ==
    IF ~built.ok THEN [ok |-> FALSE, root |-> None]
    ELSE IF built.has_file
    THEN [ok |-> TRUE,
          root |-> Some(insert_system(reparent(r, new_root(""), built.node, Partitions)))]
    ELSE [ok |-> TRUE, root |-> None]

\* collect_module_files(): [ok, root], root an Option<Node>
collect_module_files(r) ==
    IF ~IsDir(r, MODULE_DIR) THEN [ok |-> FALSE, root |-> None]
    ELSE collected(r, collect_modules(r, new_root("system"),
                                      Enumerate(DOMAIN Metadata(r, MODULE_DIR).ch), FALSE))

-----------------------------------------------------------------------------
(* Filesystem primitive layer.  A run state st is [fs, ops, n, lim, status,  *)
(* error]: the namespace, the log, the primitives issued, the number after  *)
(* which the run is looked at, "run", "paused" or "err", and the error.     *)
(* Once st is not running nothing more is issued: that is what `?` and      *)
(* bail! do.                                                                *)

OpRec(op, src, dst, ok) == [op |-> op, src |-> src, dst |-> dst, ok |-> ok]

\* one primitive whose failure is logged and then ignored
Do_ignoring(st, op, src, dst, ok, newfs) ==
    IF st.status # "run" THEN st
    ELSE IF st.n = st.lim THEN [st EXCEPT !.status = "paused"]
    ELSE [st EXCEPT !.fs = IF ok THEN newfs ELSE @, !.n = @ + 1,
                    !.ops = Append(@, OpRec(op, src, dst, ok))]

\* one fallible primitive: it is logged, and acts only where it succeeds
Do(st, op, src, dst, ok, newfs) ==
    IF st.status # "run" THEN st
    ELSE IF st.n = st.lim THEN [st EXCEPT !.status = "paused"]
    ELSE IF ok
    THEN [st EXCEPT !.fs = newfs, !.n = @ + 1, !.ops = Append(@, OpRec(op, src, dst, TRUE))]
    ELSE [st EXCEPT !.status = "err", !.error = op, !.n = @ + 1,
                    !.ops = Append(@, OpRec(op, src, dst, FALSE))]

\* bail!(...)
Bail(st) == IF st.status # "run" THEN st ELSE [st EXCEPT !.status = "err", !.error = "bail"]

\* fs::File::create: creates the file, or truncates the one that is there
File_create(st, p) ==
    LET r == st.fs
    IN  Do(st, "create", <<>>, p,
           NewPath(r, p) # None /\ (Exists(r, p) => Metadata(r, p).kind = "file"),
           IF Exists(r, p)
           THEN Put(r, RealPath(r, p)[1], [Metadata(r, p) EXCEPT !.data = ""])
           ELSE Put(r, NewPath(r, p)[1], File("", NewFileMeta)))

\* fs::create_dir: fails with EEXIST on any existing entry
create_dir(st, p) ==
    LET r == st.fs
    IN  Do(st, "create_dir", <<>>, p,
           NewPath(r, p) # None /\ ~LExists(r, p),
           Put(r, NewPath(r, p)[1], Dir(<<>>, NewDirMeta)))

\* the namespace with every missing directory of p made; None where a name on
\* the way is no directory
RECURSIVE MkdirAll(_, _, _)
MkdirAll(r, p, k) ==
    IF k > Len(p) THEN Some(r)
    ELSE LET q == SubSeq(p, 1, k)
         IN  IF Exists(r, q)
             THEN IF IsDir(r, q) THEN MkdirAll(r, p, k + 1) ELSE None
             ELSE IF NewPath(r, q) = None \/ LExists(r, q) THEN None
             ELSE MkdirAll(Put(r, NewPath(r, q)[1], Dir(<<>>, NewDirMeta)), p, k + 1)

\* fs::create_dir_all
create_dir_all(st, p) ==
    Do(st, "create_dir_all", <<>>, p, MkdirAll(st.fs, p, 1) # None, MkdirAll(st.fs, p, 1)[1])

\* Path::metadata()? / DirEntry::metadata()? / Path::read_dir()? / lgetfilecon(): reads
metadata(st, p) == Do(st, "metadata", p, <<>>, Exists(st.fs, p), st.fs)
entry_metadata(st, p) == Do(st, "metadata", p, <<>>, LExists(st.fs, p), st.fs)
read_dir(st, p) == Do(st, "read_dir", p, <<>>, IsDir(st.fs, p), st.fs)
lgetfilecon(st, p) == Do(st, "lgetfilecon", p, <<>>, LExists(st.fs, p), st.fs)

\* rustix chmod / chown follow a symlink at p
chmod(st, p, mode) ==
    LET r == st.fs
    IN  Do(st, "chmod", <<>>, p, Exists(r, p),
           Put(r, RealPath(r, p)[1], [Metadata(r, p) EXCEPT !.meta.mode = mode]))

chown(st, p, uid, gid) ==
    LET r == st.fs
    IN  Do(st, "chown", <<>>, p, Exists(r, p),
           Put(r, RealPath(r, p)[1],
               [Metadata(r, p) EXCEPT !.meta.uid = uid, !.meta.gid = gid]))

\* lsetfilecon labels the entry itself, never a symlink's target
lsetfilecon(st, p, con) ==
    LET r == st.fs
    IN  Do(st, "lsetfilecon", <<>>, p, LExists(r, p),
           Put(r, LRealPath(r, p)[1], [SymlinkMetadata(r, p) EXCEPT !.meta.con = con]))

\* std::os::unix::fs::symlink(original, link): a new symlink at `link` whose
\* stored target is the string `original`
symlink(st, original, link) ==
    LET r == st.fs
    IN  Do(st, "symlink", original, link,
           NewPath(r, link) # None /\ ~LExists(r, link),
           Put(r, NewPath(r, link)[1], Link(original, NewLinkMeta)))

\* rustix bind_mount (MS_BIND): dst shows what src shows; both must exist and
\* be both directories or both not
bind_mount(st, src, dst) ==
    LET r == st.fs
    IN  Do(st, "bind_mount", src, dst,
           /\ Exists(r, src)
           /\ Exists(r, dst)
           /\ (Metadata(r, src).kind = "dir") = (Metadata(r, dst).kind = "dir"),
           Put(r, RealPath(r, dst)[1], [Metadata(r, src) EXCEPT !.mnt = TRUE]))

\* what stays in the tmpfs directory a mount was moved away from: the plain
\* tmpfs entries, the bind mounts made on them having gone with the mount
RECURSIVE Unmounted(_)
Unmounted(e) ==
    IF e.kind = "dir"
    THEN [e EXCEPT !.mnt = FALSE, !.ch = [n \in DOMAIN e.ch |-> Unmounted(e.ch[n])]]
    ELSE IF e.mnt THEN File("", NewFileMeta)
    ELSE e

\* rustix move_mount (MS_MOVE): src must be a mount point; dst then shows it
move_mount(st, src, dst) ==
    LET r == st.fs
    IN  Do(st, "move_mount", src, dst,
           /\ Exists(r, src)
           /\ Metadata(r, src).mnt
           /\ Exists(r, dst)
           /\ (Metadata(r, src).kind = "dir") = (Metadata(r, dst).kind = "dir"),
           Put(Put(r, RealPath(r, dst)[1], Metadata(r, src)),
               RealPath(r, src)[1], Unmounted(Metadata(r, src))))

-----------------------------------------------------------------------------
(* Mirror Copier and Recursive Mount Orchestrator                           *)

\* clone_symlink(src, dst)
clone_symlink(st, src, dst) ==
    LET s1 == symlink(st, src, dst)
        s2 == lgetfilecon(s1, src)
    IN  lsetfilecon(s2, dst, SymlinkMetadata(st.fs, src).meta.con)

\* chmod, chown and lsetfilecon of work_dir_path from the entry `from`, whose
\* label is read at the path `src`
copy_attrs(st, work_dir_path, from, src) ==
    LET s1 == chmod(st, work_dir_path, from.meta.mode)
        s2 == chown(s1, work_dir_path, from.meta.uid, from.meta.gid)
        s3 == lgetfilecon(s2, src)
    IN  lsetfilecon(s3, work_dir_path, SymlinkMetadata(st.fs, src).meta.con)

\* mount_mirror(path, work_dir_path, entry), entry named `name` in `path0`
RECURSIVE mount_mirror(_, _, _, _), mirror_entries(_, _, _, _)
mount_mirror(st, path0, work0, name) ==
    IF st.status # "run" THEN st
    ELSE LET path == Append(path0, name)
             work_dir_path == Append(work0, name)
             kind == SymlinkMetadata(st.fs, path).kind
         IN  IF kind = "file"
             THEN bind_mount(File_create(st, work_dir_path), path, work_dir_path)
             ELSE IF kind = "dir"
             THEN LET s1 == create_dir(st, work_dir_path)
                      s2 == entry_metadata(s1, path)
                      s3 == copy_attrs(s2, work_dir_path, SymlinkMetadata(st.fs, path), path)
                      s4 == read_dir(s3, path)
                  IN  mirror_entries(s4, path, work_dir_path,
                                     Enumerate(DOMAIN Metadata(st.fs, path).ch))
             ELSE IF kind = "link"
             THEN clone_symlink(st, path, work_dir_path)
             ELSE st

\* the loop of mount_mirror over read_dir(&path)
mirror_entries(st, path, work_dir_path, names) ==
    IF names = <<>> \/ st.status # "run" THEN st
    ELSE mirror_entries(mount_mirror(st, path, work_dir_path, Head(names)),
                        path, work_dir_path, Tail(names))

\* the loop deciding create_tmpfs, for the children `names` left: [st, need]
RECURSIVE need_loop(_, _, _, _)
need_loop(st, path, children, names) ==
    IF names = <<>> \/ st.status # "run" THEN [st |-> st, need |-> FALSE]
    ELSE LET node == children[Head(names)]
             real_path == Append(path, Head(names))
         IN  IF node.file_type = "Symlink" \/ ~Exists(st.fs, real_path)
             THEN [st |-> st, need |-> TRUE]
             ELSE LET s1 == metadata(st, real_path)
                      got == from_file_type(Metadata(st.fs, real_path).kind)
                      file_type == IF got = None THEN "RegularFile" ELSE got[1]
                  IN  IF s1.status # "run" THEN [st |-> s1, need |-> FALSE]
                      ELSE IF file_type # node.file_type \/ file_type = "Symlink"
                      THEN [st |-> s1, need |-> TRUE]
                      ELSE need_loop(s1, path, children, Tail(names))

\* chmod, chown and label of the skeleton directory, taken from the live
\* directory or else from the module's; s1 is the run after create_dir_all
skeleton_attrs(s1, r, path, work_dir_path, current) ==
    IF Exists(r, path)
    THEN copy_attrs(metadata(s1, path), work_dir_path, Metadata(r, path), path)
    ELSE IF current.module_path # None
    THEN copy_attrs(metadata(s1, current.module_path[1]), work_dir_path,
                    Metadata(r, current.module_path[1]), current.module_path[1])
    ELSE Bail(s1)

\* the tmpfs skeleton of a directory in shadow mode
skeleton(st, path, work_dir_path, current) ==
    skeleton_attrs(create_dir_all(st, work_dir_path), st.fs, path, work_dir_path, current)

RECURSIVE do_magic_mount(_, _, _, _, _), directory(_, _, _, _, _)
RECURSIVE with_skeleton(_, _, _, _, _), with_tmpfs(_, _, _, _, _, _)
RECURSIVE with_live(_, _, _, _, _, _), with_rest(_, _, _, _, _, _)
RECURSIVE live_loop(_, _, _, _, _, _), rest_loop(_, _, _, _, _, _)
\* do_magic_mount(path, work_dir_path, current, has_tmpfs)
do_magic_mount(st, path0, work0, current, has_tmpfs) ==
    IF st.status # "run" THEN st
    ELSE IF current.file_type = "RegularFile"
    THEN IF current.module_path # None
         THEN bind_mount(IF has_tmpfs THEN File_create(st, Join(work0, current.name)) ELSE st,
                         current.module_path[1], Join(work0, current.name))
         ELSE Bail(IF has_tmpfs THEN File_create(st, Join(work0, current.name)) ELSE st)
    ELSE IF current.file_type = "Symlink"
    THEN IF current.module_path # None
         THEN clone_symlink(st, current.module_path[1], Join(work0, current.name))
         ELSE Bail(st)
    ELSE directory(st, Join(path0, current.name), Join(work0, current.name),
                   current, has_tmpfs)

\* the Directory arm deciding never to create a tmpfs
directory_noshadow(st, path, work_dir_path, current, has_tmpfs) ==
    with_skeleton([st |-> st, need |-> FALSE], path, work_dir_path, current, has_tmpfs)

\* the Directory arm: create_tmpfs decided, has_tmpfs updated
directory(st, path, work_dir_path, current, has_tmpfs) ==
    with_skeleton(IF has_tmpfs THEN [st |-> st, need |-> FALSE]
                  ELSE need_loop(st, path, current.children,
                                 Enumerate(DOMAIN current.children)),
                  path, work_dir_path, current, has_tmpfs)

\* the skeleton made where has_tmpfs; dec is [st, need], need being create_tmpfs
with_skeleton(dec, path, work_dir_path, current, has_tmpfs) ==
    with_tmpfs(IF has_tmpfs \/ dec.need
               THEN skeleton(dec.st, path, work_dir_path, current)
               ELSE dec.st,
               path, work_dir_path, current, dec.need, has_tmpfs \/ dec.need)

\* the skeleton bind-mounted on itself and later moved wherever has_tmpfs
with_tmpfs_always(s2, path, work_dir_path, current, create_tmpfs, has_tmpfs) ==
    with_live(IF has_tmpfs THEN bind_mount(s2, work_dir_path, work_dir_path) ELSE s2,
              path, work_dir_path, current, has_tmpfs, has_tmpfs)

\* the skeleton bind-mounted on the live path at once where create_tmpfs
with_tmpfs_live(s2, path, work_dir_path, current, create_tmpfs, has_tmpfs) ==
    with_live(IF create_tmpfs THEN bind_mount(s2, work_dir_path, path) ELSE s2,
              path, work_dir_path, current, create_tmpfs, has_tmpfs)

\* the skeleton bind-mounted on itself where create_tmpfs
with_tmpfs(s2, path, work_dir_path, current, create_tmpfs, has_tmpfs) ==
    with_live(IF create_tmpfs THEN bind_mount(s2, work_dir_path, work_dir_path) ELSE s2,
              path, work_dir_path, current, create_tmpfs, has_tmpfs)

\* the live entries gone through, unless path is missing or current.replace
with_live(s3, path, work_dir_path, current, create_tmpfs, has_tmpfs) ==
    with_rest(IF Exists(s3.fs, path) /\ ~current.replace
              THEN live_loop(read_dir(s3, path), path, work_dir_path, current.children,
                             IF IsDir(s3.fs, path)
                             THEN Enumerate(DOMAIN Metadata(s3.fs, path).ch)
                             ELSE <<>>,
                             has_tmpfs)
              ELSE [st |-> s3, children |-> current.children],
              path, work_dir_path, current, create_tmpfs, has_tmpfs)

\* the bail on a replaced root, the children left, and the move of the tmpfs
with_rest(live, path, work_dir_path, current, create_tmpfs, has_tmpfs) ==
    IF create_tmpfs
    THEN move_mount(rest_loop(IF current.replace /\ current.module_path = None
                              THEN Bail(live.st) ELSE live.st,
                              path, work_dir_path, live.children,
                              Enumerate(DOMAIN live.children), has_tmpfs),
                    work_dir_path, path)
    ELSE rest_loop(IF current.replace /\ current.module_path = None
                   THEN Bail(live.st) ELSE live.st,
                   path, work_dir_path, live.children,
                   Enumerate(DOMAIN live.children), has_tmpfs)

\* the loop over path.read_dir() leaving a matched child in current.children
live_loop_keep(st, path, work_dir_path, children, names, has_tmpfs) ==
    IF names = <<>> \/ st.status # "run" THEN [st |-> st, children |-> children]
    ELSE IF Head(names) \in DOMAIN children
    THEN live_loop(do_magic_mount(st, path, work_dir_path, children[Head(names)], has_tmpfs),
                   path, work_dir_path, children, Tail(names), has_tmpfs)
    ELSE IF has_tmpfs
    THEN live_loop(mount_mirror(st, path, work_dir_path, Head(names)),
                   path, work_dir_path, children, Tail(names), has_tmpfs)
    ELSE live_loop(st, path, work_dir_path, children, Tail(names), has_tmpfs)

\* the loop over path.read_dir(), for the live entries `names` left:
\* [st, children], children being what is left of current.children
live_loop(st, path, work_dir_path, children, names, has_tmpfs) ==
    IF names = <<>> \/ st.status # "run" THEN [st |-> st, children |-> children]
    ELSE LET name == Head(names)
         IN  IF name \in DOMAIN children
             THEN live_loop(do_magic_mount(st, path, work_dir_path, children[name], has_tmpfs),
                            path, work_dir_path, Remove(children, name), Tail(names), has_tmpfs)
             ELSE IF has_tmpfs
             THEN live_loop(mount_mirror(st, path, work_dir_path, name),
                            path, work_dir_path, children, Tail(names), has_tmpfs)
             ELSE live_loop(st, path, work_dir_path, children, Tail(names), has_tmpfs)

\* the loop over current.children.into_values(), for the children `names` left
rest_loop(st, path, work_dir_path, children, names, has_tmpfs) ==
    IF names = <<>> \/ st.status # "run" THEN st
    ELSE rest_loop(do_magic_mount(st, path, work_dir_path, children[Head(names)], has_tmpfs),
                   path, work_dir_path, children, Tail(names), has_tmpfs)

-----------------------------------------------------------------------------
(* Top-level driver: magic_mount()                                          *)

Ok == [ok |-> TRUE, err |-> ""]
Err(what) == [ok |-> FALSE, err |-> what]

\* the namespace with a fresh tmpfs mounted on TEMP_DIR
MountedTmp(r) ==
    Put(r, RealPath(r, TEMP_DIR)[1], [Dir(<<>>, Meta(1777, 0, 0, "tmpfs")) EXCEPT !.mnt = TRUE])

\* do_magic_mount("/", &tmp_dir, root, false) looked at after lim primitives
Run(lim) ==
    do_magic_mount([fs |-> MountedTmp(fs0), ops |-> SubSeq(ops, 1, Len(ops) - step),
                    n |-> 0, lim |-> lim, status |-> "run", error |-> ""],
                   <<>>, TEMP_DIR, root[1], FALSE)

\* magic_mount returning the failure of the unmount in place of orchResult
magic_mount_result_masked(orchResult, unmounted) ==
    IF unmounted THEN orchResult ELSE Err("unmount")

\* what magic_mount returns once do_magic_mount returned orchResult and
\* unmount(tmp_dir, DETACH) succeeded or not
magic_mount_result(orchResult, unmounted) == orchResult

\* collect_module_files()?, and the arm taken on its value
Collect ==
    /\ pc = "start"
    /\ \E c \in {collect_module_files(fs)} :
           /\ root' = c.root
           /\ IF ~c.ok THEN pc' = "done" /\ result' = Some(Err("collect"))
              ELSE IF c.root = None THEN pc' = "done" /\ result' = Some(Ok)
              ELSE pc' = "mount" /\ result' = None
    /\ UNCHANGED <<first, fs0, fs, order, step, ops, orch, umountOk, faults>>

\* mount(KSU_MOUNT_SOURCE, &tmp_dir, "tmpfs", ..) succeeds
MountTmp ==
    /\ pc = "mount"
    /\ IsDir(fs, TEMP_DIR)
    /\ fs' = MountedTmp(fs)
    /\ ops' = Append(ops, OpRec("mount", <<KSU_MOUNT_SOURCE>>, TEMP_DIR, TRUE))
    /\ pc' = "private"
    /\ UNCHANGED <<first, fs0, order, root, step, orch, umountOk, faults, result>>

\* mount(..) fails: .context("mount tmp")? returns the error
MountTmpFails ==
    /\ pc = "mount"
    /\ ops' = Append(ops, OpRec("mount", <<KSU_MOUNT_SOURCE>>, TEMP_DIR, FALSE))
    /\ pc' = "done"
    /\ result' = Some(Err("mount tmp"))
    /\ faults' = faults + 1
    /\ UNCHANGED <<first, fs0, fs, order, root, step, orch, umountOk>>

\* mount_change(&tmp_dir, PRIVATE) succeeds
MakePrivate ==
    /\ pc = "private"
    /\ ops' = Append(ops, OpRec("mount_change", <<>>, TEMP_DIR, TRUE))
    /\ pc' = "orch"
    /\ UNCHANGED <<first, fs0, fs, order, root, step, orch, umountOk, faults, result>>

\* mount_change(..) fails: .context("make tmp private")? returns the error
MakePrivateFails ==
    /\ pc = "private"
    /\ ops' = Append(ops, OpRec("mount_change", <<>>, TEMP_DIR, FALSE))
    /\ pc' = "done"
    /\ result' = Some(Err("make tmp private"))
    /\ faults' = faults + 1
    /\ UNCHANGED <<first, fs0, fs, order, root, step, orch, umountOk>>

\* do_magic_mount issues its next primitive, which does what the namespace
\* makes it do; the call returns when no primitive is left or one failed
OrchStep ==
    /\ pc = "orch"
    /\ \E r \in {Run(step + 1)} :
           /\ fs' = r.fs
           /\ ops' = r.ops
           /\ step' = r.n
           /\ IF r.status = "paused" THEN pc' = "orch" /\ orch' = None
              ELSE /\ pc' = "unmount"
                   /\ orch' = Some(IF r.status = "run" THEN Ok ELSE Err(r.error))
    /\ UNCHANGED <<first, fs0, order, root, umountOk, faults, result>>

\* the next primitive of do_magic_mount fails for a reason of its own (EPERM,
\* EBUSY, ENOMEM, EIO): `?` returns the error
OrchFault ==
    /\ pc = "orch"
    /\ \E r \in {Run(step + 1)} :
           /\ r.n = step + 1
           /\ ops' = Append(ops, [r.ops[Len(r.ops)] EXCEPT !.ok = FALSE])
           /\ step' = step + 1
           /\ orch' = Some(Err(r.ops[Len(r.ops)].op))
    /\ pc' = "unmount"
    /\ faults' = faults + 1
    /\ UNCHANGED <<first, fs0, fs, order, root, umountOk, result>>

\* unmount(&tmp_dir, DETACH) succeeds or fails (logged only); result is returned
Unmount ==
    /\ pc = "unmount"
    /\ \E unmounted \in BOOLEAN :
          /\ umountOk' = Some(unmounted)
          /\ ops' = Append(ops, OpRec("unmount", <<>>, TEMP_DIR, unmounted))
          /\ fs' = IF unmounted THEN Put(fs, RealPath(fs, TEMP_DIR)[1], Metadata(fs0, TEMP_DIR))
                   ELSE fs
          /\ result' = Some(magic_mount_result(orch[1], unmounted))
    /\ pc' = "done"
    /\ UNCHANGED <<first, fs0, order, root, step, orch, faults>>

-----------------------------------------------------------------------------
(* The namespaces magic_mount() is started in                               *)

\* the live /system/xbin: a file, a directory with a file, a symlink to the file
LiveXbin ==
    Dir(("sh" :> File("live", Meta(755, 0, 2000, "shell_exec")))
        @@ ("lib" :> Dir("so" :> File("live", Meta(644, 0, 0, "system_lib_file")),
                         Meta(750, 1000, 1000, "system_lib_file")))
        @@ ("ln" :> Link(<<"system", "xbin", "sh">>, Meta(777, 0, 2000, "system_file"))),
        Meta(751, 0, 2000, "system_file"))

\* the same with a symlink to the directory too
LiveXbinD ==
    [LiveXbin EXCEPT !.ch = @ @@ ("lnd" :> Link(<<"system", "xbin", "lib">>,
                                               Meta(777, 0, 2000, "system_file")))]

LivePartition == Dir("so" :> File("live", Meta(644, 0, 0, "vendor_file")),
                     Meta(755, 0, 2000, "vendor_file"))

Layouts == {"split", "merged", "dangling", "none"}

\* /<partition> and /system/<partition> in a layout: [top, sys], each a map
PartitionLayout(partition, layout) ==
    IF layout = "split"
    THEN [top |-> partition :> LivePartition,
          sys |-> partition :> Link(<<partition>>, Meta(777, 0, 0, "system_file"))]
    ELSE IF layout = "merged"
    THEN [top |-> partition :> Link(<<"system", partition>>, Meta(777, 0, 0, "rootfs")),
          sys |-> partition :> LivePartition]
    ELSE IF layout = "dangling"
    THEN [top |-> <<>>,
          sys |-> partition :> Link(<<partition>>, Meta(777, 0, 0, "system_file"))]
    ELSE [top |-> <<>>, sys |-> <<>>]

\* the whole namespace: the live system, the modules, the empty TEMP_DIR
Namespace(xbin, partition, layout, modules) ==
    LET l == PartitionLayout(partition, layout)
    IN  Dir(("system" :> Dir(("xbin" :> xbin) @@ l.sys, Meta(755, 0, 0, "system_file")))
            @@ l.top
            @@ ("data" :> Dir("adb" :> Dir("modules" :> Dir(modules, Meta(771, 0, 0, "adb_data_file")),
                                           Meta(700, 0, 0, "adb_data_file")),
                              Meta(771, 1000, 1000, "system_data_file")))
            @@ ("debug_ramdisk" :> Dir(<<>>, Meta(755, 0, 0, "rootfs"))),
            Meta(755, 0, 0, "rootfs"))

\* entries of a module m; a file of m holds the data m
MFile(m) == File(m, Meta(755, 0, 2000, "system_file"))
MDir(ch) == Dir(ch, Meta(750, 0, 2000, "system_file"))
MLink(m) == Link(<<"system", "xbin", "lib", "so">>, Meta(777, 0, 0, "system_file"))
MOther(m) == Other(Meta(600, 0, 0, "system_file"))
Marker == File("", Meta(644, 0, 0, "adb_data_file"))

\* the system directory of a module with xbin entries xbin and other entries top
SystemTree(xbin, top) == MDir(IF DOMAIN xbin = {} THEN top ELSE ("xbin" :> MDir(xbin)) @@ top)

\* the entry of module m in MODULE_DIR
Module(m, flag, system) ==
    IF flag = "notdir" THEN MFile(m)
    ELSE IF flag = "nosystem" THEN MDir(<<>>)
    ELSE IF flag = "sysfile" THEN MDir("system" :> MFile(m))
    ELSE IF flag = "on" THEN MDir("system" :> system)
    ELSE MDir(("system" :> system) @@ (flag :> Marker))

OverlaySlots == {"sh", "su", "lib", "ln"}

\* what a module m may put at a slot of /system/xbin
Options(m, slot) ==
    IF slot = "sh" THEN <<MFile(m), MLink(m), MDir("new" :> MFile(m))>>
    ELSE IF slot = "su" THEN <<MFile(m), MLink(m), MDir("so" :> MFile(m))>>
    ELSE IF slot = "lib"
    THEN <<MDir("so" :> MFile(m)), MDir("new" :> MFile(m)), MFile(m),
           MDir(("so" :> MFile(m)) @@ ("new" :> MLink(m)))>>
    ELSE <<MFile(m), MDir("so" :> MFile(m))>>

\* the xbin maps of module m with at most k of the slots, each with one option
Choices(m, slots, k) ==
    UNION {{[x \in S |-> Options(m, x)[f[x]]] :
               f \in {g \in [S -> 1..4] : \A x \in S : g[x] <= Len(Options(m, x))}} :
           S \in {T \in SUBSET slots : Cardinality(T) <= k}}

\* one module overlaying up to MaxModuleEntries entries of /system/xbin
OverlayCases ==
    {Namespace(LiveXbin, "vendor", "split", "m1" :> Module("m1", "on", SystemTree(x, <<>>))) :
        x \in Choices("m1", OverlaySlots, MaxModuleEntries)}

\* module directories that carry the .replace marker
Replaced(m) ==
    {MDir(".replace" :> Marker),
     MDir((".replace" :> Marker) @@ ("so" :> MFile(m))),
     MDir((".replace" :> Marker) @@ ("new" :> MFile(m))),
     MDir((".replace" :> Marker) @@ ("so" :> MFile(m)) @@ ("new" :> MFile(m)))}

\* one module replacing /system/xbin/lib, or /system itself
ReplaceCases ==
    {Namespace(LiveXbin, "vendor", "split",
               "m1" :> Module("m1", "on", SystemTree(("lib" :> d) @@ x, <<>>))) :
        d \in Replaced("m1"), x \in {<<>>, "su" :> MFile("m1")}}
    \cup
    {Namespace(LiveXbin, "vendor", "split",
               "m1" :> Module("m1", "on", SystemTree(x, (".replace" :> Marker) @@ t))) :
        x \in {<<>>, "su" :> MFile("m1")}, t \in {<<>>, "new" :> MFile("m1")}}

\* one module with an empty directory, a device node, an entry where the live
\* entry is a symlink to a directory, or a new entry of /system
OtherCases ==
    {Namespace(LiveXbinD, "vendor", "split", "m1" :> Module("m1", "on", SystemTree(x, t))) :
        x \in {"su" :> MDir(<<>>), "su" :> MOther("m1"),
               ("su" :> MFile("m1")) @@ ("new" :> MOther("m1")),
               "lnd" :> MDir("so" :> MFile("m1")), "lnd" :> MDir("new" :> MFile("m1")),
               "lnd" :> MFile("m1")},
        t \in {<<>>}}
    \cup
    {Namespace(LiveXbin, "vendor", "split", "m1" :> Module("m1", "on", SystemTree(<<>>, t))) :
        t \in {"new" :> MFile("m1"), "new" :> MDir("so" :> MFile("m1"))}}

\* one module overlaying a partition, in every layout of that partition
PartitionCases ==
    {Namespace(LiveXbin, Partitions[i], layout,
               "m1" :> Module("m1", "on", SystemTree(<<>>, Partitions[i] :> MDir(n :> MFile("m1"))))) :
        i \in 1..Len(Partitions), layout \in Layouts, n \in {"so", "new"}}

\* what each of two modules may put at /system/xbin/su and at /system/xbin/lib
MergeSu(m) == {MFile(m), MLink(m), MDir("so" :> MFile(m)), MDir("new" :> MFile(m)), MDir(<<>>)}
MergeLib(m) == {MDir("so" :> MFile(m)), MDir("new" :> MFile(m)), MDir(".replace" :> Marker), MFile(m)}

\* two modules with an entry each, at the same path or not
MergeCases ==
    {Namespace(LiveXbin, "vendor", "split",
               ("m1" :> Module("m1", "on", SystemTree(x, <<>>)))
               @@ ("m2" :> Module("m2", "on", SystemTree(y, <<>>)))) :
        x \in {"su" :> e : e \in MergeSu("m1")}, y \in {"su" :> e : e \in MergeSu("m2")}}
    \cup
    {Namespace(LiveXbin, "vendor", "split",
               ("m1" :> Module("m1", "on", SystemTree(x, <<>>)))
               @@ ("m2" :> Module("m2", "on", SystemTree(y, <<>>)))) :
        x \in {"lib" :> e : e \in MergeLib("m1")},
        y \in {"lib" :> e : e \in MergeLib("m2")} \cup {"su" :> MFile("m2")}}

Flags == {"on", "disable", "skip_mount", "nosystem", "sysfile", "notdir"}

\* two modules, each eligible or not
EligibilityCases ==
    {Namespace(LiveXbin, "vendor", "split",
               ("m1" :> Module("m1", flag, SystemTree(x, <<>>)))
               @@ ("m2" :> Module("m2", flag2, SystemTree("sh" :> MFile("m2"), <<>>)))) :
        flag \in Flags, flag2 \in {"notdir", "disable", "on"},
        x \in {"su" :> MFile("m1"), "su" :> MDir(<<>>), "su" :> MDir("so" :> MDir(<<>>))}}

Init ==
    /\ fs0 \in OverlayCases \cup ReplaceCases \cup OtherCases \cup PartitionCases
                \cup MergeCases \cup EligibilityCases
    /\ fs = fs0
    /\ order \in {"fwd", "rev"}
    /\ pc = "start"
    /\ root = None
    /\ step = 0
    /\ ops = <<>>
    /\ orch = None
    /\ umountOk = None
    /\ faults = 0
    /\ result = None
    /\ first = None

Next ==
    \/ Collect
    \/ MountTmp
    \/ MountTmpFails
    \/ MakePrivate
    \/ MakePrivateFails
    \/ OrchStep
    \/ OrchFault
    \/ Unmount

Spec == Init /\ [][Next]_vars

\* magic_mount() is called once more, in the namespace the first call left
Again ==
    /\ pc = "done"
    /\ first = None
    /\ first' = Some([fs |-> fs, result |-> result[1]])
    /\ fs0' = fs
    /\ pc' = "start"
    /\ root' = None
    /\ step' = 0
    /\ ops' = <<>>
    /\ orch' = None
    /\ umountOk' = None
    /\ result' = None
    /\ UNCHANGED <<fs, order, faults>>

\* two calls in succession, no primitive failing for a reason of its own
NextTwice ==
    \/ Collect
    \/ MountTmp
    \/ MakePrivate
    \/ OrchStep
    \/ Unmount
    \/ Again

SpecTwice == Init /\ [][NextTwice]_vars

-----------------------------------------------------------------------------
(* Properties of magic_mount() settled against the model                   *)

Done == pc = "done"
Succeeded == Done /\ result = Some(Ok)

\* the entries of MODULE_DIR before the run, and the eligible ones among them
ModuleNames == DOMAIN Get(fs0, MODULE_DIR).ch
ModuleEntry(m) == Get(fs0, MODULE_DIR).ch[m]
Eligible(m) ==
    /\ ModuleEntry(m).kind = "dir"
    /\ "disable" \notin DOMAIN ModuleEntry(m).ch
    /\ "skip_mount" \notin DOMAIN ModuleEntry(m).ch
    /\ "system" \in DOMAIN ModuleEntry(m).ch
    /\ ModuleEntry(m).ch["system"].kind = "dir"

\* a tree of directories alone, empty or not
RECURSIVE OnlyDirs(_)
OnlyDirs(e) == e.kind = "dir" /\ \A n \in DOMAIN e.ch : OnlyDirs(e.ch[n])

\* a tree with a regular file, a symlink or a .replace marker in it
RECURSIVE HasContent(_)
HasContent(e) ==
    \/ e.kind \in {"file", "link"}
    \/ e.kind = "dir" /\ \E n \in DOMAIN e.ch : HasContent(e.ch[n])

\* no eligible module contributes any content
NoContent == \A m \in ModuleNames : Eligible(m) => OnlyDirs(ModuleEntry(m).ch["system"])

\* C1: if no eligible module contributes any content, magic_mount returns
\* success, issues no primitive at all (no mount, propagation change, bind
\* mount, relocate-mount or unmount) and leaves the namespace as it was.
C1_NoContentNoMounts ==
    NoContent =>
        /\ ops = <<>>
        /\ fs = fs0
        /\ pc \in {"start", "done"}
        /\ Done => result = Some(Ok)

\* a finished run where one module is disabled or skipped although it has
\* content and an eligible one has nothing but directories
C1_Witness ==
    /\ Done
    /\ NoContent
    /\ \E m \in ModuleNames : Eligible(m) /\ DOMAIN ModuleEntry(m).ch["system"].ch # {}
    /\ \E m \in ModuleNames :
          /\ ~Eligible(m)
          /\ ModuleEntry(m).kind = "dir"
          /\ "system" \in DOMAIN ModuleEntry(m).ch
          /\ HasContent(ModuleEntry(m).ch["system"])

\* the nodes of the virtual tree below and at `node`, each with its live path
RECURSIVE NodesOf(_, _)
NodesOf(node, path) ==
    {[path |-> path, node |-> node]}
    \cup UNION {NodesOf(node.children[n], Append(path, n)) : n \in DOMAIN node.children}

TreeNodes == IF root = None THEN {} ELSE NodesOf(root[1], <<>>)
NodeAt(path) == CHOOSE x \in TreeNodes : x.path = path

\* the kind of live entry a node of a file type stands for
KindOf(file_type) ==
    IF file_type = "RegularFile" THEN "file"
    ELSE IF file_type = "Directory" THEN "dir" ELSE "link"

\* the entry itself (no symlink followed at the last name) is there before the run
Was(path) == LExists(fs0, path)
Before(path) == SymlinkMetadata(fs0, path)

\* every virtual child of the directory node x has a live counterpart of the
\* same type that is no symlink: by the shadow decision x needs no shadow
NoShadowNeeded(x) ==
    \A n \in DOMAIN x.node.children :
        /\ Was(Append(x.path, n))
        /\ Before(Append(x.path, n)).kind = KindOf(x.node.children[n].file_type)
        /\ Before(Append(x.path, n)).kind # "link"

\* the directory nodes above the node at `path`
Ancestors(path) == {x \in TreeNodes : Len(x.path) < Len(path) /\ x.path = SubSeq(path, 1, Len(x.path))}

\* a module file over a live regular file, no directory on the way needing a shadow
C2_Case(x) ==
    /\ x.node.file_type = "RegularFile"
    /\ Was(x.path)
    /\ Before(x.path).kind = "file"
    /\ \A a \in Ancestors(x.path) : NoShadowNeeded(a)

IssuedOk(op, dst) == \E i \in 1..Len(ops) : ops[i].op = op /\ ops[i].dst = dst /\ ops[i].ok

\* C2: a module's regular file over a live regular file, in a directory that
\* needs no shadow: unless a primitive fails for a reason of its own the run
\* succeeds, the module file was bind-mounted onto the live path and the live
\* path shows the module file's content.
C2_FileOverLiveFile ==
    \A x \in TreeNodes :
        (Done /\ faults = 0 /\ C2_Case(x)) =>
            /\ result = Some(Ok)
            /\ IssuedOk("bind_mount", x.path)
            /\ Exists(fs, x.path)
            /\ Metadata(fs, x.path).data = Metadata(fs0, x.node.module_path[1]).data

\* the same names, kinds, file contents and link targets, all the way down
RECURSIVE SameContent(_, _)
SameContent(a, b) ==
    /\ a.kind = b.kind
    /\ a.data = b.data
    /\ a.target = b.target
    /\ DOMAIN a.ch = DOMAIN b.ch
    /\ \A n \in DOMAIN a.ch : SameContent(a.ch[n], b.ch[n])

\* the live path of node x shows what the module put there
ShowsModule(x) ==
    /\ LExists(fs, x.path)
    /\ SymlinkMetadata(fs, x.path).kind = KindOf(x.node.file_type)
    /\ x.node.file_type = "RegularFile" =>
           SymlinkMetadata(fs, x.path).data = Metadata(fs0, x.node.module_path[1]).data

\* the pre-existing entries beside the node at `path` that no node stands for
Siblings(path) ==
    {n \in DOMAIN Metadata(fs0, Front(path)).ch :
        Append(Front(path), n) \notin {y.path : y \in TreeNodes}}

\* C3: after a successful run the live directory of a module directory that
\* carries .replace holds exactly the module-contributed entries, none of the
\* entries it had before, whatever the module and live children are; the
\* directories beside it keep their content.
C3_ReplaceHidesLive ==
    \A x \in TreeNodes :
        (Succeeded /\ x.node.replace /\ x.node.module_path # None /\ IsDir(fs0, Front(x.path))) =>
            /\ IsDir(fs, x.path)
            /\ DOMAIN Metadata(fs, x.path).ch = DOMAIN x.node.children
            /\ \A y \in TreeNodes : Front(y.path) = x.path /\ y.path # <<>> => ShowsModule(y)
            /\ \A n \in Siblings(x.path) :
                   Metadata(fs0, Front(x.path)).ch[n].kind = "dir" =>
                       /\ LExists(fs, Append(Front(x.path), n))
                       /\ SameContent(Metadata(fs0, Front(x.path)).ch[n],
                                      SymlinkMetadata(fs, Append(Front(x.path), n)))

\* the path below TEMP_DIR of a scratch path
Rel(work) == SubSeq(work, Len(TEMP_DIR) + 1, Len(work))
InScratch(path) == Len(path) >= Len(TEMP_DIR) /\ SubSeq(path, 1, Len(TEMP_DIR)) = TEMP_DIR

\* the symlink a scratch symlink is made for: the module's where a Symlink
\* node stands at that path, the live one otherwise
SourceLink(work) ==
    IF \E x \in TreeNodes : x.path = Rel(work) /\ x.node.file_type = "Symlink"
    THEN NodeAt(Rel(work)).node.module_path[1]
    ELSE Rel(work)

\* C4: every symlink the orchestrator or the Mirror Copier creates stores the
\* target string its source symlink stores (not the path of the source
\* symlink), and no bind mount has a symlink as its source.
C4_SymlinkTargetsCloned ==
    \A i \in 1..Len(ops) :
        /\ (ops[i].op = "symlink" /\ ops[i].ok /\ LExists(fs, ops[i].dst)) =>
               SymlinkMetadata(fs, ops[i].dst).target = Before(SourceLink(ops[i].dst)).target
        /\ (ops[i].op = "bind_mount" /\ Was(ops[i].src)) => Before(ops[i].src).kind # "link"

\* the system directory of module m, and the path below it a node was read at
ModSystem(m) == MODULE_DIR \o <<m, "system">>
RelOf(x) == IF x.path # <<>> /\ x.path[1] = "system" THEN Tail(x.path) ELSE x.path

\* the eligible modules that have an entry of a supported type where node x is
Contributes(m, x) ==
    /\ Eligible(m)
    /\ LExists(fs0, ModSystem(m) \o RelOf(x))
    /\ Before(ModSystem(m) \o RelOf(x)).kind # "other"
Contributors(x) == SelectSeq(Enumerate(ModuleNames), LAMBDA m : Contributes(m, x))

\* the names a module directory gives its node as children
ChildNames(m, x) ==
    {n \in DOMAIN Before(ModSystem(m) \o RelOf(x)).ch :
        n # ".replace" /\ Before(ModSystem(m) \o RelOf(x)).ch[n].kind # "other"}

\* node x is the entry of module m
IsEntryOf(x, m) ==
    /\ x.node.module_path = Some(ModSystem(m) \o RelOf(x))
    /\ from_file_type(Before(ModSystem(m) \o RelOf(x)).kind) = Some(x.node.file_type)

\* the children of node x are those of all its contributors together
Merged(x) ==
    DOMAIN x.node.children =
        UNION {ChildNames(Contributors(x)[i], x) : i \in 1..Len(Contributors(x))}

AllDirs(x) ==
    \A i \in 1..Len(Contributors(x)) :
        Before(ModSystem(Contributors(x)[i]) \o RelOf(x)).kind = "dir"

\* the nodes that modules gave, with two contributors or more
Shared == {x \in TreeNodes : x.node.module_path # None /\ Len(Contributors(x)) >= 2}

SameView(q) ==
    /\ LExists(fs, q)
    /\ SymlinkMetadata(fs, q).kind = Before(q).kind
    /\ IF Before(q).kind = "link"
       THEN /\ Exists(fs, q) = Exists(fs0, q)
            /\ Exists(fs0, q) => SameContent(Metadata(fs0, q), Metadata(fs, q))
       ELSE SameContent(Before(q), SymlinkMetadata(fs, q))

\* a module file at a path that is not there, in a live directory that is,
\* no directory above it marked .replace
C6_Case(x) ==
    /\ x.node.file_type = "RegularFile"
    /\ \A a \in Ancestors(x.path) : ~a.node.replace
    /\ ~Was(x.path)
    /\ Was(Front(x.path))
    /\ Before(Front(x.path)).kind = "dir"

\* C6: a module's regular file at a path that did not exist, in an existing
\* live directory: after a successful run the live path shows the module's
\* file and every entry the directory had (file, directory subtree, symlink)
\* is visible under its name with the content or link resolution it had.
C6_NewFileKeepsSiblings ==
    \A x \in TreeNodes :
        (Succeeded /\ C6_Case(x)) =>
            /\ ShowsModule(x)
            /\ \A n \in Siblings(x.path) : SameView(Append(Front(x.path), n))

\* the path below <module>/system that gave node x
ModuleRel(x) == SubSeq(x.node.module_path[1], Len(MODULE_DIR) + 3, Len(x.node.module_path[1]))

\* /<partition> is a directory and /system/<partition> a symlink, before the run
Split(partition) == IsDir(fs0, <<partition>>) /\ IsSymlink(fs0, <<"system", partition>>)

PartitionNames == {Partitions[i] : i \in 1..Len(Partitions)}

\* node x came from a module path system/<partition>/.. of a split partition
Reparented(x) ==
    /\ x.node.module_path # None
    /\ ModuleRel(x)[1] \in PartitionNames
    /\ Split(ModuleRel(x)[1])

\* `path` is strictly below /system/<partition>
BelowSystem(path, partition) ==
    Len(path) > 2 /\ SubSeq(path, 1, 2) = <<"system", partition>>

\* C7: a module path system/<partition>/foo of a partition whose /<partition>
\* is a directory and whose /system/<partition> is a symlink is a node under
\* the root, realised at /<partition>/foo with no operation on anything below
\* /system/<partition>; of any other partition it stays under system.
C7_PartitionReparenting ==
    /\ \A x \in TreeNodes :
          x.node.module_path # None =>
              /\ x.path = IF Reparented(x) THEN ModuleRel(x) ELSE <<"system">> \o ModuleRel(x)
              /\ (Succeeded /\ Reparented(x) /\ x.node.file_type = "RegularFile") => ShowsModule(x)
    /\ \A partition \in PartitionNames :
          Split(partition) =>
              \A i \in 1..Len(ops) :
                  ~BelowSystem(ops[i].src, partition) /\ ~BelowSystem(ops[i].dst, partition)

\* reached: a file of a split partition shown at /<partition>/foo after a
\* successful run
C7_Witness ==
    /\ Succeeded
    /\ \E x \in TreeNodes :
          /\ Reparented(x)
          /\ x.node.file_type = "RegularFile"
          /\ Len(x.path) = 2
          /\ ShowsModule(x)
          /\ IssuedOk("move_mount", Front(x.path))

\* mode, owner, group and label of an entry and of everything beneath it
RECURSIVE SameAttrs(_, _)
SameAttrs(a, b) ==
    /\ a.meta = b.meta
    /\ DOMAIN a.ch = DOMAIN b.ch
    /\ \A n \in DOMAIN a.ch : SameAttrs(a.ch[n], b.ch[n])

\* C8: when a module file that was not there forces a live directory into a
\* shadow, each entry the directory had (file, directory with all beneath it,
\* symlink) has after a successful run the mode, owner, group and label it had.
C8_SiblingAttributesKept ==
    \A x \in TreeNodes :
        (Succeeded /\ C6_Case(x)) =>
            \A n \in Siblings(x.path) :
                /\ LExists(fs, Append(Front(x.path), n))
                /\ SameAttrs(Before(Append(Front(x.path), n)),
                             SymlinkMetadata(fs, Append(Front(x.path), n)))

Issued(op) == \E i \in 1..Len(ops) : ops[i].op = op

\* C9: once the tmpfs is mounted on TEMP_DIR, magic_mount has issued the
\* detaching unmount of TEMP_DIR by the time it returns, whether the
\* orchestrator succeeded or failed or making the mount private failed.
C9_UnmountAlwaysIssued ==
    (Done /\ IssuedOk("mount", TEMP_DIR)) => Issued("unmount")

\* C10: what magic_mount returns after do_magic_mount has run is what
\* do_magic_mount returned, whether the unmount succeeded or failed.
C10_ResultIsOrchestratorResult ==
    (Done /\ orch # None) => result = orch

\* reached: the traversal succeeded, the unmount failed, Ok is returned
C10_Witness ==
    /\ Done
    /\ orch = Some(Ok)
    /\ umountOk = Some(FALSE)
    /\ ops[Len(ops)] = OpRec("unmount", <<>>, TEMP_DIR, FALSE)

\* what a live path shows: names, file contents, symlink targets
Visible(r) == [r EXCEPT !.ch = Remove(@, TEMP_DIR[1])]

\* C11: a second call of magic_mount() with the same modules, nothing else
\* having changed, succeeds if the first did and leaves every live path
\* showing what it showed after the first (names, contents, link targets).
C11_SecondRunSame ==
    (Done /\ first # None) =>
        /\ first[1].result.ok => Succeeded
        /\ SameContent(Visible(first[1].fs), Visible(fs))

\* the scratch path of a live path
ScratchOf(path) == TEMP_DIR \o path

\* the directory at `path` switched on shadow mode: its scratch directory was
\* bind-mounted on itself
SelfBind(path) ==
    \E i \in 1..Len(ops) :
        ops[i] = OpRec("bind_mount", ScratchOf(path), ScratchOf(path), TRUE)

\* the node x is processed inside the shadow of a directory above it
Inherited(x) == \E a \in Ancestors(x.path) : SelfBind(a.path)

\* C12: a directory not already shadowed, one of whose virtual children has a
\* symlink as its live entry, goes into shadow mode, also where the symlink
\* leads to an entry of the child's type.
C12_LiveSymlinkForcesShadow ==
    \A x \in TreeNodes :
        (/\ Succeeded
         /\ x.node.file_type = "Directory"
         /\ \E n \in DOMAIN x.node.children : IsSymlink(fs0, Append(x.path, n)))
            => SelfBind(x.path) \/ Inherited(x)

\* the nodes without a module_path
Synthetic == {x \in TreeNodes : x.node.module_path = None}

\* the primitives that bring a node of a module to its scratch path
Brings(i, x) ==
    /\ ops[i].op \in {"bind_mount", "symlink"}
    /\ ops[i].dst = ScratchOf(x.path)
    /\ x.node.file_type # "Directory"

\* C13: in every tree the builder gives, the nodes without a module_path are
\* the root and `system`, both directories; the orchestrator never bails on a
\* synthetic file or symlink, and what it mounts or links for a file or
\* symlink node has the node's module_path as its source.
C13_SyntheticNodesAreDirectories ==
    /\ \A x \in Synthetic :
          x.node.file_type = "Directory" /\ x.path \in {<<>>, <<"system">>}
    /\ orch = Some(Err("bail")) => \E x \in Synthetic : x.node.replace
    /\ \A x \in TreeNodes : \A i \in 1..Len(ops) :
          Brings(i, x) => x.node.module_path = Some(ops[i].src)

\* reached: a successful run that mounted a module file and cloned a module
\* symlink under the synthetic root and system
C13_Witness ==
    /\ Succeeded
    /\ Cardinality(Synthetic) = 2
    /\ \E x \in TreeNodes, i \in 1..Len(ops) :
          Brings(i, x) /\ ops[i].op = "bind_mount" /\ ops[i].ok
    /\ \E x \in TreeNodes, i \in 1..Len(ops) :
          Brings(i, x) /\ ops[i].op = "symlink" /\ ops[i].ok

\* the primitives that put something at their dst: a bind mount, a symlink
\* creation, a relocate-mount
Placing == {"bind_mount", "symlink", "move_mount"}

\* the number of primitives that brought node x to its scratch path
TimesBrought(x) == Cardinality({i \in 1..Len(ops) : Brings(i, x)})

\* C14: in one run no path is the target of two bind mounts, symlink
\* creations or relocate-mounts (so no node is processed twice and no live
\* entry is both overridden and mirrored), and after a successful run every
\* file and symlink node was brought to its scratch path exactly once.
C14_EachNodeOnce ==
    /\ \A i, j \in 1..Len(ops) :
          (i # j /\ ops[i].op \in Placing /\ ops[j].op \in Placing)
              => ops[i].dst # ops[j].dst
    /\ \A x \in TreeNodes :
          x.node.file_type # "Directory" =>
              /\ TimesBrought(x) <= 1
              /\ Succeeded => TimesBrought(x) = 1

\* reached: a successful run in a shadowed directory that overrode a live
\* entry with a module node, brought a second module node, and mirrored a
\* live entry no node stands for
C14_Witness ==
    /\ Succeeded
    /\ \E x, y \in TreeNodes :
          /\ x # y
          /\ Front(x.path) = Front(y.path)
          /\ SelfBind(Front(x.path))
          /\ Was(x.path)
          /\ TimesBrought(x) = 1
          /\ TimesBrought(y) = 1
          /\ \E n \in Siblings(x.path) :
                IssuedOk("bind_mount", ScratchOf(Append(Front(x.path), n)))

\* path p lies strictly beneath path q
Beneath(p, q) == Len(p) > Len(q) /\ SubSeq(p, 1, Len(q)) = q

\* the primitive i is the self-bind of a scratch directory
IsSelfBind(i) ==
    ops[i].op = "bind_mount" /\ ops[i].src = ops[i].dst /\ InScratch(ops[i].dst)

\* the primitive k is the relocate-mount of the scratch directory of i
Relocates(k, i) ==
    /\ ops[k].op = "move_mount"
    /\ ops[k].src = ops[i].dst
    /\ ops[k].dst = Rel(ops[i].dst)

\* C15: only a directory that itself switched on shadow mode self-binds and
\* relocates: no self-bind and no relocate-mount lies beneath another; the
\* self-bind comes before every primitive targeting a scratch path beneath
\* it and the relocate-mount after all of them; every relocate-mount has its
\* self-bind, and after a successful run every self-bind has exactly one
\* relocate-mount, issued later.
C15_SelfBindAndRelocate ==
    /\ \A i, j \in 1..Len(ops) :
          /\ (IsSelfBind(i) /\ IsSelfBind(j)) => ~Beneath(ops[i].dst, ops[j].dst)
          /\ (ops[i].op = "move_mount" /\ ops[j].op = "move_mount")
                => ~Beneath(ops[i].dst, ops[j].dst)
          /\ (IsSelfBind(i) /\ Beneath(ops[j].dst, ops[i].dst)) => i < j
          /\ (ops[i].op = "move_mount" /\ Beneath(ops[j].dst, ops[i].src)) => j < i
    /\ \A k \in 1..Len(ops) :
          ops[k].op = "move_mount" =>
              \E i \in 1..(k - 1) : IsSelfBind(i) /\ ops[i].ok /\ Relocates(k, i)
    /\ Succeeded =>
          \A i \in 1..Len(ops) :
              IsSelfBind(i) =>
                  /\ Cardinality({k \in 1..Len(ops) : Relocates(k, i)}) = 1
                  /\ \E k \in (i + 1)..Len(ops) : Relocates(k, i) /\ ops[k].ok

\* reached: a successful run with a directory that switched on shadow mode
\* and, inside it, a directory node built under the inherited shadow
C15_Witness ==
    /\ Succeeded
    /\ \E x, y \in TreeNodes :
          /\ x.node.file_type = "Directory"
          /\ y.node.file_type = "Directory"
          /\ Beneath(y.path, x.path)
          /\ SelfBind(x.path)
          /\ IssuedOk("move_mount", x.path)
          /\ IssuedOk("create_dir_all", ScratchOf(y.path))
          /\ \E z \in TreeNodes : Beneath(z.path, y.path) /\ TimesBrought(z) = 1

\* the primitives of do_magic_mount and mount_mirror that make or change
\* something
Building ==
    {"create", "create_dir", "create_dir_all", "chmod", "chown", "lsetfilecon",
     "symlink", "bind_mount"}

\* this step issued a successful relocate-mount and changed the live view at
\* its target only, which now shows the scratch directory as it was built
RelocateStep ==
    /\ Len(ops') = Len(ops) + 1
    /\ ops'[Len(ops')].op = "move_mount"
    /\ ops'[Len(ops')].ok
    /\ ~InScratch(ops'[Len(ops')].dst)
    /\ Exists(fs, ops'[Len(ops')].dst)
    /\ Visible(fs') = Visible(Put(fs, RealPath(fs, ops'[Len(ops')].dst)[1],
                                  Metadata(fs', ops'[Len(ops')].dst)))
    /\ SameContent(Metadata(fs, ops'[Len(ops')].src), Metadata(fs', ops'[Len(ops')].dst))

\* C16: every primitive that builds a shadow targets a path inside the
\* scratch workspace, and the live view changes only in the step of a
\* relocate-mount, at its target, from what was there to the finished scratch
\* directory; each directory is relocated onto at most once.
C16_LiveViewChangesAtRelocate ==
    /\ [](\A i \in 1..Len(ops) : ops[i].op \in Building => InScratch(ops[i].dst))
    /\ [](\A i, j \in 1..Len(ops) :
            (i # j /\ ops[i].op = "move_mount" /\ ops[j].op = "move_mount")
                => ops[i].dst # ops[j].dst)
    /\ [][Visible(fs') # Visible(fs) => RelocateStep]_vars

\* reached: a shadow under construction (self-bind done, a module node
\* brought, nothing relocated yet) with the live view as it was before
C16_Witness ==
    /\ pc = "orch"
    /\ Visible(fs) = Visible(fs0)
    /\ ~Issued("move_mount")
    /\ \E x \in TreeNodes :
          /\ TimesBrought(x) = 1
          /\ SelfBind(Front(x.path))
          /\ Was(Front(x.path))

\* the primitive i failed, the unmount apart
Failed(i) == ~ops[i].ok /\ ops[i].op # "unmount"

\* the primitives of the traversal: those of the driver apart
Traversal(i) == ops[i].op \notin {"mount", "mount_change", "unmount"}

\* C17: after a primitive has failed nothing more is issued but the unmount
\* of TEMP_DIR, magic_mount returns the error (that of the failed primitive
\* where it failed in the traversal), no live path is ever unmounted, and
\* every relocate-mount completed before is still in place.
C17_FailureAborts ==
    \A i \in 1..Len(ops) :
        /\ ops[i].op = "unmount" => ops[i].dst = TEMP_DIR /\ i = Len(ops)
        /\ (ops[i].op = "move_mount" /\ ops[i].ok) =>
               Exists(fs, ops[i].dst) /\ Metadata(fs, ops[i].dst).mnt
        /\ Failed(i) =>
               /\ \A j \in (i + 1)..Len(ops) : ops[j].op = "unmount"
               /\ Done => result # None /\ ~result[1].ok
               /\ (Done /\ Traversal(i)) => result = Some(Err(ops[i].op))

\* reached: a primitive of the traversal failed after a relocate-mount had
\* completed, the unmount followed, the error was returned
C17_Witness ==
    /\ Done
    /\ Len(ops) > 3
    /\ ops[Len(ops)].op = "unmount"
    /\ Failed(Len(ops) - 1)
    /\ Traversal(Len(ops) - 1)
    /\ \E k \in 1..(Len(ops) - 2) : ops[k].op = "move_mount" /\ ops[k].ok

\* the directory nodes flagged replace that no module owns
ReplacedRoots ==
    {x \in TreeNodes :
        x.node.file_type = "Directory" /\ x.node.replace /\ x.node.module_path = None}

\* the primitive i looks at a live entry of the directory at `path`
Consults(i, path) ==
    \/ Beneath(ops[i].src, path)
    \/ ops[i].op = "read_dir" /\ ops[i].src = path

\* the primitive i builds or mounts the scratch directory of `path` or
\* something in it
Builds(i, path) ==
    ops[i].dst = ScratchOf(path) \/ Beneath(ops[i].dst, ScratchOf(path))

\* C18: a directory node with replace set and no module_path makes the run
\* fail at once: do_magic_mount returns an error having looked at no live
\* entry of the directory, processed none of its children and issued no
\* create, self-bind, bind or relocate-mount for it.
C18_ReplacedRootAbortsAtOnce ==
    \A x \in ReplacedRoots :
        (orch # None /\ faults = 0) =>
            /\ ~orch[1].ok
            /\ \A i \in 1..Len(ops) :
                  Traversal(i) => ~Consults(i, x.path) /\ ~Builds(i, x.path)

\* a module directory, not flagged replace, where the live entry is there and
\* is no directory
C19_Case(x) ==
    /\ x.node.file_type = "Directory"
    /\ ~x.node.replace
    /\ Exists(fs0, x.path)
    /\ Metadata(fs0, x.path).kind # "dir"
    /\ \A a \in Ancestors(x.path) : ~a.node.replace

\* C19: a module directory at a path where the live entry exists and is no
\* directory: the parent is shadowed, the live path is never read as a
\* directory, so the run does not fail there, and after a successful run the
\* directory shown holds the module's children only.
C19_DirectoryOverLiveFile ==
    \A x \in TreeNodes :
        C19_Case(x) =>
            /\ \A i \in 1..Len(ops) :
                  /\ ~(ops[i].op = "read_dir" /\ ops[i].src = x.path)
                  /\ Builds(i, x.path) => Inherited(x)
            /\ Succeeded =>
                  /\ IsDir(fs, x.path)
                  /\ DOMAIN Metadata(fs, x.path).ch = DOMAIN x.node.children

\* the scratch directory `work` was made before primitive i
MadeBefore(work, i) ==
    \E j \in 1..(i - 1) :
        ops[j].op \in {"create_dir_all", "create_dir"} /\ ops[j].dst = work /\ ops[j].ok

\* C20: a Symlink node is only processed with has_tmpfs true: the symlink
\* primitive issued for it targets a scratch path, a directory above the node
\* has switched on shadow mode, and the scratch directory that is to hold
\* the link was made before.
C20_SymlinkOnlyInShadow ==
    \A x \in TreeNodes : \A i \in 1..Len(ops) :
        (x.node.file_type = "Symlink" /\ Brings(i, x)) =>
            /\ ops[i].op = "symlink"
            /\ InScratch(ops[i].dst)
            /\ Inherited(x)
            /\ MadeBefore(Front(ops[i].dst), i)

\* reached: a module symlink standing where the live entry was a regular
\* file, created in the shadow of its directory in a successful run
C20_Witness ==
    /\ Succeeded
    /\ \E x \in TreeNodes :
          /\ x.node.file_type = "Symlink"
          /\ Was(x.path)
          /\ Before(x.path).kind = "file"
          /\ TimesBrought(x) = 1
          /\ SelfBind(Front(x.path))
          /\ IsSymlink(fs, x.path)

====
